---- MODULE Spec2Model ----
(***************************************************************************)
(* Model of the magnetic-survey correction application (src/代码.py).      *)
(*                                                                         *)
(* State: the two QTableWidget grids, the status label, the figure, the    *)
(* console flag, what the last handler wrote to the console / message box, *)
(* the file the last load_excel was given, and the local variables of the  *)
(* last process_and_plot invocation.                                       *)
(*                                                                         *)
(* Numbers: numpy float64 values are modelled as exact rationals [n, d]    *)
(* (d > 0, lowest terms); NaN is carried separately as a flag on a cell.   *)
(* IEEE rounding and overflow are therefore outside the model.             *)
(* Column labels are written in ASCII (Longitude for 经度(°), ...).         *)
(***************************************************************************)
EXTENDS Integers, Sequences, FiniteSets, TLC

VARIABLES table_main, table_aux, label, figure, console_shown,
          console_out, msgbox, run, dialog, fn_data, fn_result

vars == <<table_main, table_aux, label, figure, console_shown,
          console_out, msgbox, run, dialog, fn_data, fn_result>>

app_vars == <<table_main, table_aux, label, figure, console_shown,
              console_out, msgbox, run, dialog>>

fn_vars == <<fn_data, fn_result>>

(***************************************************************************)
(* Bounds of the exploration.                                              *)
(***************************************************************************)
\* rows the two grids may hold together for a row to be appended
MaxTotalRows == 3
\* the user types into the first rows of a grid only
MaxEditRow == 2
\* rows of the matrices handed to the pure functions
MaxN == 11
\* largest integer with a textual form in the cell-text table
MaxVal == 12

(***************************************************************************)
(* Column labels.                                                          *)
(***************************************************************************)
FIELDS == <<"Longitude", "Latitude", "VerticalDepth", "WellheadElevation",
            "X", "Y", "Z">>

VECTOR_FIELDS == <<"X", "Y", "Z">>

GEO_FIELDS == <<"Longitude", "Latitude", "VerticalDepth", "WellheadElevation">>

\* position of a label in a header sequence (0 when absent)
ColIndex(columns, name) ==
    IF \E k \in 1..Len(columns) : columns[k] = name
    THEN CHOOSE k \in 1..Len(columns) : columns[k] = name
    ELSE 0

Range(s) == {s[k] : k \in 1..Len(s)}

\* an array held in memory: every element computed once
Array(s) == s \o <<>>

(***************************************************************************)
(* float64 as exact rationals.                                             *)
(***************************************************************************)
Abs(x) == IF x < 0 THEN -x ELSE x

RECURSIVE GCD(_, _)
GCD(a, b) == IF b = 0 THEN a ELSE GCD(b, a % b)

Frac(n, d) ==
    IF d = 1 THEN [n |-> n, d |-> 1]
    ELSE LET g == GCD(Abs(n), d) IN [n |-> n \div g, d |-> d \div g]

Rat(k) == [n |-> k, d |-> 1]

RAdd(a, b) == Frac(a.n * b.d + b.n * a.d, a.d * b.d)

RSub(a, b) == Frac(a.n * b.d - b.n * a.d, a.d * b.d)

RMul(a, b) == Frac(a.n * b.n, a.d * b.d)

\* a / b for b > 0
RDiv(a, b) == Frac(a.n * b.d, a.d * b.n)

RLess(a, b) == a.n * b.d < b.n * a.d

RSum(s) ==
    LET F[i \in 0..Len(s)] == IF i = 0 THEN Rat(0) ELSE RAdd(F[i - 1], s[i])
    IN F[Len(s)]

(***************************************************************************)
(* Cell text <-> number (pd.to_numeric(errors='coerce') and str()).        *)
(***************************************************************************)
NaN == [nan |-> TRUE, v |-> 0]

Num(k) == [nan |-> FALSE, v |-> k]

Digits == <<"0", "1", "2", "3", "4", "5", "6", "7", "8", "9",
            "10", "11", "12", "13", "14", "15", "16">>

IntText(k) == Digits[k + 1]

FloatText(k) == Digits[k + 1] \o ".0"

\* pd.to_numeric(text, errors='coerce'): a number, or NaN for a blank,
\* the text "nan", or anything unparsable
NumberTexts ==
    {IntText(k) : k \in 0..MaxVal} \cup {FloatText(k) : k \in 0..MaxVal}

to_numeric(text) ==
    IF text \in NumberTexts
    THEN Num(CHOOSE k \in 0..MaxVal : text = IntText(k) \/ text = FloatText(k))
    ELSE NaN

\* str(df.iat[r, c]): a column holding a NaN is float64, otherwise int64
Str(cell, float_column) ==
    IF cell.nan THEN "nan"
    ELSE IF float_column THEN FloatText(cell.v)
    ELSE IntText(cell.v)

\* a grid cell that holds no QTableWidgetItem
NoItem == "<no item>"

ItemText(item) == IF item = NoItem THEN "" ELSE item

\* a freshly inserted grid row: 7 cells without items
BlankRow == [c \in 1..Len(FIELDS) |-> NoItem]

table_to_dataframe(table) ==
    Array([r \in 1..Len(table) |->
        Array([c \in 1..Len(FIELDS) |-> to_numeric(ItemText(table[r][c]))])])

\* dataframe_to_table(df, table) for a frame whose columns are FIELDS
dataframe_to_table(df) ==
    [r \in 1..Len(df) |->
        [c \in 1..Len(FIELDS) |->
            Str(df[r][c], \E q \in 1..Len(df) : df[q][c].nan)]]

(***************************************************************************)
(* The three numeric functions.                                            *)
(***************************************************************************)
Column(data, j) == Array([i \in 1..Len(data) |-> data[i][j]])

\* np.mean(data, axis=0)[j]
ColMean(data, j) == RDiv(RSum(Column(data, j)), Rat(Len(data)))

\* np.std(data, axis=0)[j] ** 2 (population variance)
ColVar(data, j) ==
    LET m == ColMean(data, j)
        sq == Array([i \in 1..Len(data) |->
                  RMul(RSub(data[i][j], m), RSub(data[i][j], m))])
    IN RDiv(RSum(sq), Rat(Len(data)))

\* np.abs((x - mean) / std) > threshold, for threshold > 0:
\* 0/0 is NaN (compares false), x/0 is inf (compares true)
ZExceeds(x, mean, var, threshold) ==
    LET dev == RSub(x, mean) IN
    IF var.n = 0 THEN dev.n # 0
    ELSE RLess(RMul(RMul(threshold, threshold), var), RMul(dev, dev))

\* faulty variant: the deviation is not divided by the standard deviation
detect_outliers_unscaled(data, threshold) ==
    LET mean == <<ColMean(data, 1), ColMean(data, 2), ColMean(data, 3)>>
    IN  Array([i \in 1..Len(data) |->
            \E j \in 1..3 :
                LET dev == RSub(data[i][j], mean[j]) IN
                RLess(RMul(threshold, threshold), RMul(dev, dev))])

detect_outliers_zscore(data, threshold) ==
    LET mean == <<ColMean(data, 1), ColMean(data, 2), ColMean(data, 3)>>
        var == <<ColVar(data, 1), ColVar(data, 2), ColVar(data, 3)>>
    IN  Array([i \in 1..Len(data) |->
            \E j \in 1..3 : ZExceeds(data[i][j], mean[j], var[j], threshold)])

\* the default weights=None
None == [none |-> TRUE, w |-> <<>>]

\* returns the mean vector, or raises ZeroDivisionError (np.average:
\* "Weights sum to zero") on zero rows
weighted_average(data, weights) ==
    LET w0 == IF weights = None THEN Array([i \in 1..Len(data) |-> Rat(1)])
              ELSE weights.w
        total == RSum(w0)
    IN IF Len(data) = 0 \/ total.n = 0
       THEN [raised |-> "ZeroDivisionError", value |-> <<>>]
       ELSE LET w == Array([i \in 1..Len(data) |-> RDiv(w0[i], total)])
                scl == RSum(w)
            IN [raised |-> "",
                value |-> Array([j \in 1..3 |->
                    RDiv(RSum(Array([i \in 1..Len(data) |->
                                        RMul(data[i][j], w[i])])),
                         scl)])]

\* faulty variant: the blend moves away from the reference
correct_main_data_away(main_vec, aux_mean, factor) ==
    Array([i \in 1..Len(main_vec) |->
        Array([j \in 1..3 |->
            RSub(main_vec[i][j],
                 RMul(factor, RSub(aux_mean[j], main_vec[i][j])))])])

correct_main_data(main_vec, aux_mean, factor) ==
    Array([i \in 1..Len(main_vec) |->
        Array([j \in 1..3 |->
            RAdd(main_vec[i][j],
                 RMul(factor, RSub(aux_mean[j], main_vec[i][j])))])])

(***************************************************************************)
(* Pieces of process_and_plot.                                             *)
(***************************************************************************)
\* the pandas index kept by df[cols].dropna(): the rows with no NaN in cols
DropnaIndex(df, cols) ==
    LET F[i \in 0..Len(df)] ==
            IF i = 0 THEN <<>>
            ELSE IF \A k \in 1..Len(cols) : ~df[i][ColIndex(FIELDS, cols[k])].nan
                 THEN Append(F[i - 1], i)
                 ELSE F[i - 1]
    IN F[Len(df)]

\* df[cols].dropna().astype(float).values
Values(df, cols) ==
    LET idx == DropnaIndex(df, cols) IN
    Array([k \in 1..Len(idx) |->
        Array([j \in 1..Len(cols) |->
            Rat(df[idx[k]][ColIndex(FIELDS, cols[j])].v)])])

\* astype(float) raises on a cell that is not numeric
astype_raises(df) ==
    \E r \in 1..Len(df) : \E c \in 1..Len(FIELDS) :
        df[r][c] \notin [nan : BOOLEAN, v : Int]

\* faulty variant: 'and' in place of 'or'
IncompleteDataBoth(main_df, aux_df) ==
    /\ Len(DropnaIndex(main_df, VECTOR_FIELDS)) = 0
    /\ Len(DropnaIndex(aux_df, VECTOR_FIELDS)) = 0

\* the guard of line 222
IncompleteData(main_df, aux_df) ==
    \/ Len(DropnaIndex(main_df, VECTOR_FIELDS)) = 0
    \/ Len(DropnaIndex(aux_df, VECTOR_FIELDS)) = 0

\* faulty variant: the singleton branch is taken on the wrong count
SingletonAuxNever(aux_vec) == Len(aux_vec) = 0

\* the branch of line 243
SingletonAux(aux_vec) == Len(aux_vec) = 1

\* faulty variant: arr[outlier_mask], the negation forgotten
MaskSelectFlagged(arr, mask) ==
    IF Len(arr) # Len(mask)
    THEN [raised |-> "IndexError", value |-> <<>>]
    ELSE LET F[i \in 0..Len(arr)] ==
                 IF i = 0 THEN <<>>
                 ELSE IF mask[i] THEN Append(F[i - 1], arr[i]) ELSE F[i - 1]
         IN [raised |-> "", value |-> F[Len(arr)]]

\* arr[~outlier_mask]: numpy raises IndexError when the boolean index and
\* the array differ in length along axis 0
MaskSelect(arr, mask) ==
    IF Len(arr) # Len(mask)
    THEN [raised |-> "IndexError", value |-> <<>>]
    ELSE LET F[i \in 0..Len(arr)] ==
                 IF i = 0 THEN <<>>
                 ELSE IF ~mask[i] THEN Append(F[i - 1], arr[i]) ELSE F[i - 1]
         IN [raised |-> "", value |-> F[Len(arr)]]

\* ax.quiver(origins, vectors): the six coordinate arrays are broadcast
\* against each other; lengths that do not broadcast raise ValueError
Quiver(origins, vectors, color) ==
    IF Len(origins) = Len(vectors) \/ Len(origins) = 1 \/ Len(vectors) = 1
    THEN [raised |-> "",
          value |-> [color |-> color,
                     n |-> IF Len(origins) > Len(vectors) THEN Len(origins)
                           ELSE Len(vectors)]]
    ELSE [raised |-> "ValueError", value |-> [color |-> color, n |-> 0]]

\* Figure(): nothing on it
EmptyFigure == [axes |-> FALSE, quivers |-> <<>>]

\* lines 267-291: the figure after the render, or the exception that ends it
Render(aux_geo_valid, aux_valid, main_geo, main_vec, main_corrected) ==
    LET cleared == [axes |-> TRUE, quivers |-> <<>>]
        qa == Quiver(aux_geo_valid, aux_valid, "green")
        qm == Quiver(main_geo, main_vec, "blue")
        qc == Quiver(main_geo, main_corrected, "red")
        after_aux == IF Len(aux_geo_valid) > 0
                     THEN [cleared EXCEPT !.quivers = <<qa.value>>]
                     ELSE cleared
    IN IF Len(aux_geo_valid) > 0 /\ qa.raised # ""
       THEN [raised |-> qa.raised, figure |-> cleared]
       ELSE IF Len(main_geo) = 0
       THEN [raised |-> "", figure |-> after_aux]
       ELSE IF qm.raised # ""
       THEN [raised |-> qm.raised, figure |-> after_aux]
       ELSE IF qc.raised # ""
       THEN [raised |-> qc.raised,
             figure |-> [after_aux EXCEPT
                            !.quivers = Append(after_aux.quivers, qm.value)]]
       ELSE [raised |-> "",
             figure |-> [after_aux EXCEPT
                            !.quivers = after_aux.quivers
                                        \o <<qm.value, qc.value>>]]

Line(tag, text) == [tag |-> tag, text |-> text, sheet |-> "", column |-> ""]

Label(text) == [text |-> text]

NoBox == [text |-> "", sheet |-> "", column |-> ""]

\* the file dialog cancelled; also: no load_excel in progress
NoFile == [path |-> "", readable |-> FALSE, sheets |-> <<>>]

\* the locals of process_and_plot when it is not running
NoRun ==
    [outcome |-> "none", main_vec_idx |-> <<>>, main_geo_idx |-> <<>>,
     aux_vec_idx |-> <<>>, aux_geo_idx |-> <<>>, main_vec |-> <<>>,
     aux_vec |-> <<>>, calls |-> <<>>, outlier_mask |-> <<>>,
     aux_valid |-> <<>>, aux_geo_valid |-> <<>>, agg_input |-> <<>>,
     aux_mean |-> <<>>, main_corrected |-> <<>>, fallback |-> FALSE]

\* threshold=3 of detect_outliers_zscore
DefaultThreshold == 3

\* factor=1.0 of correct_main_data
DefaultFactor == 1

\* what a step of process_and_plot leaves behind when it raises
Raised(locals, exception, lines, fig) ==
    [locals |-> [locals EXCEPT !.outcome = exception],
     label |-> label, console |-> lines, figure |-> fig]

\* lines 267-293: the render has been attempted
Rendered(locals, info, rendered) ==
    IF rendered.raised # ""
    THEN Raised(locals, rendered.raised, info, rendered.figure)
    ELSE [locals |-> [locals EXCEPT !.outcome = "done"],
          label |-> Label("done"),
          console |-> Append(info, Line("INFO", "plot_updated")),
          figure |-> rendered.figure]

\* lines 256-293: the auxiliary mean is known and the correction computed
Corrected(arrays, locals, aux_valid, aux_geo_valid, aux_mean, main_corrected) ==
    Rendered([locals EXCEPT !.calls = Append(@, "correct_main_data"),
                            !.aux_valid = aux_valid,
                            !.aux_geo_valid = aux_geo_valid,
                            !.aux_mean = aux_mean,
                            !.main_corrected = main_corrected],
             <<Line("INFO", "valid_aux_points"), Line("INFO", "aux_mean"),
               IF Len(main_corrected) > 0
               THEN Line("INFO", "corrected_first_row")
               ELSE Line("WARN", "corrected_empty")>>,
             Render(aux_geo_valid, aux_valid, arrays.main_geo, arrays.main_vec,
                    main_corrected))

\* lines 254-293: weighted_average has been called on aux_valid
Averaged(arrays, locals, aux_valid, aux_geo_valid, avg) ==
    IF avg.raised # ""
    THEN Raised([locals EXCEPT !.calls = Append(@, "weighted_average"),
                               !.agg_input = aux_valid],
                avg.raised, <<>>, figure)
    ELSE Corrected(arrays,
                   [locals EXCEPT !.calls = Append(@, "weighted_average"),
                                  !.agg_input = aux_valid],
                   aux_valid, aux_geo_valid, avg.value,
                   correct_main_data(arrays.main_vec, avg.value,
                                     Rat(DefaultFactor)))

\* lines 249-293: the two arrays have been indexed with ~outlier_mask
Selected(arrays, locals, sel_vec, sel_geo) ==
    IF sel_vec.raised # ""
    THEN Raised(locals, sel_vec.raised, <<>>, figure)
    ELSE IF sel_geo.raised # ""
    THEN Raised(locals, sel_geo.raised, <<>>, figure)
    ELSE IF Len(sel_vec.value) = 0
    THEN Averaged(arrays, [locals EXCEPT !.fallback = TRUE],
                  arrays.aux_vec, arrays.aux_geo,
                  weighted_average(arrays.aux_vec, None))
    ELSE Averaged(arrays, locals, sel_vec.value, sel_geo.value,
                  weighted_average(sel_vec.value, None))

\* lines 248-293: the outlier mask has been computed
Filtered(arrays, locals, mask) ==
    Selected(arrays,
             [locals EXCEPT !.calls = <<"detect_outliers_zscore">>,
                            !.outlier_mask = mask],
             MaskSelect(arrays.aux_vec, mask),
             MaskSelect(arrays.aux_geo, mask))

\* lines 243-293, entered with at least one auxiliary vector row
Correct(arrays, locals) ==
    IF SingletonAux(arrays.aux_vec)
    THEN Corrected(arrays, locals, arrays.aux_vec, arrays.aux_geo,
                   arrays.aux_vec[1],
                   correct_main_data(arrays.main_vec, arrays.aux_vec[1],
                                     Rat(DefaultFactor)))
    ELSE Filtered(arrays, locals,
                  detect_outliers_zscore(arrays.aux_vec, Rat(DefaultThreshold)))

\* lines 238-293: the four arrays have been extracted
Extracted(arrays, locals) ==
    IF Len(arrays.aux_vec) = 0
    THEN [locals |-> [locals EXCEPT !.outcome = "aux_empty"],
          label |-> Label("aux_empty"),
          console |-> <<Line("WARN", "aux_empty")>>,
          figure |-> figure]
    ELSE Correct(arrays, locals)

\* lines 219-293: the locals at the end of the call and what it leaves on
\* the label, the console and the figure
Pipeline(main_df, aux_df) ==
    LET arrays == [main_vec |-> Values(main_df, VECTOR_FIELDS),
                   aux_vec |-> Values(aux_df, VECTOR_FIELDS),
                   main_geo |-> Values(main_df, GEO_FIELDS),
                   aux_geo |-> Values(aux_df, GEO_FIELDS)]
    IN  IF IncompleteData(main_df, aux_df)
        THEN [locals |-> [NoRun EXCEPT !.outcome = "incomplete"],
              label |-> Label("fill_all_components"),
              console |-> <<Line("WARN", "data_incomplete")>>,
              figure |-> figure]
        ELSE IF astype_raises(main_df) \/ astype_raises(aux_df)
        THEN [locals |-> [NoRun EXCEPT !.outcome = "format_error"],
              label |-> Label("format_error"),
              console |-> <<Line("ERROR", "format_error"),
                            Line("", "Traceback")>>,
              figure |-> figure]
        ELSE Extracted(arrays,
                       [NoRun EXCEPT
                           !.main_vec_idx = DropnaIndex(main_df, VECTOR_FIELDS),
                           !.main_geo_idx = DropnaIndex(main_df, GEO_FIELDS),
                           !.aux_vec_idx = DropnaIndex(aux_df, VECTOR_FIELDS),
                           !.aux_geo_idx = DropnaIndex(aux_df, GEO_FIELDS),
                           !.main_vec = arrays.main_vec,
                           !.aux_vec = arrays.aux_vec])

(***************************************************************************)
(* Handlers.                                                               *)
(***************************************************************************)
process_and_plot ==
    LET p == Pipeline(table_to_dataframe(table_main),
                      table_to_dataframe(table_aux))
    IN  /\ console_shown' = TRUE
        /\ label' = p.label
        /\ console_out' = p.console
        /\ figure' = p.figure
        /\ run' = p.locals
        /\ dialog' = NoFile
        /\ msgbox' = NoBox
        /\ UNCHANGED <<table_main, table_aux, fn_vars>>

\* faulty variant: the row goes into the other grid
add_main_row_into_aux ==
    /\ Len(table_main) + Len(table_aux) < MaxTotalRows
    /\ table_aux' = Append(table_aux, BlankRow)
    /\ console_out' = <<>>
    /\ msgbox' = NoBox
    /\ run' = NoRun
    /\ dialog' = NoFile
    /\ UNCHANGED <<table_main, label, figure, console_shown, fn_vars>>

add_main_row ==
    /\ Len(table_main) + Len(table_aux) < MaxTotalRows
    /\ table_main' = Append(table_main, BlankRow)
    /\ console_out' = <<>>
    /\ msgbox' = NoBox
    /\ run' = NoRun
    /\ dialog' = NoFile
    /\ UNCHANGED <<table_aux, label, figure, console_shown, fn_vars>>

add_aux_row ==
    /\ Len(table_main) + Len(table_aux) < MaxTotalRows
    /\ table_aux' = Append(table_aux, BlankRow)
    /\ console_out' = <<>>
    /\ msgbox' = NoBox
    /\ run' = NoRun
    /\ dialog' = NoFile
    /\ UNCHANGED <<table_main, label, figure, console_shown, fn_vars>>

(***************************************************************************)
(* Workbooks offered to load_excel.  A sheet is a frame: its header and    *)
(* its rows of cells, aligned with the header.                             *)
(***************************************************************************)
Cells(ints) == [c \in 1..Len(ints) |-> Num(ints[c])]

\* the spec's end-to-end example: one main row, two auxiliary rows
BookEndToEnd ==
    << [columns |-> FIELDS,
        data |-> << Cells(<<1, 1, 0, 0, 10, 0, 0>>) >>],
       [columns |-> FIELDS,
        data |-> << Cells(<<1, 1, 0, 0, 0, 0, 10>>),
                    Cells(<<1, 1, 0, 0, 0, 0, 12>>) >>] >>

\* one sheet only, its columns in another order and one more than needed
BookSingleSheet ==
    << [columns |-> <<"Remark", "Z", "Y", "X", "WellheadElevation",
                      "VerticalDepth", "Latitude", "Longitude">>,
        data |-> << <<NaN, Num(10), Num(0), Num(0), Num(0), Num(0), Num(1),
                      Num(1)>>,
                    <<NaN, Num(10), Num(0), Num(0), Num(0), Num(0), Num(1),
                      Num(1)>> >>] >>

\* eleven auxiliary rows, ten alike and one apart
BookOutlier ==
    << [columns |-> FIELDS,
        data |-> << Cells(<<1, 1, 0, 0, 10, 0, 0>>) >>],
       [columns |-> FIELDS,
        data |-> [r \in 1..11 |->
                     IF r = 6 THEN Cells(<<1, 1, 0, 0, 0, 0, 12>>)
                     ELSE Cells(<<1, 1, 0, 0, 0, 0, 10>>)]] >>

Workbooks == {BookEndToEnd, BookSingleSheet, BookOutlier}

RemoveAt(s, k) == [i \in 1..(Len(s) - 1) |-> IF i < k THEN s[i] ELSE s[i + 1]]

\* the sheet without the column called name
DropColumn(sheet, name) ==
    LET k == ColIndex(sheet.columns, name) IN
    [columns |-> RemoveAt(sheet.columns, k),
     data |-> [r \in 1..Len(sheet.data) |-> RemoveAt(sheet.data[r], k)]]

\* the first two workbooks with one required column taken out of one sheet
DefectiveWorkbooks ==
    {[book EXCEPT ![s] = DropColumn(book[s], name)] :
        <<book, s, name>> \in
            {t \in {BookEndToEnd, BookSingleSheet} \X (1..2) \X Range(FIELDS) :
                t[2] <= Len(t[1])}}

\* what the file dialog and pd.ExcelFile can hand back
Files ==
    {NoFile,
     [path |-> "book.xlsx", readable |-> FALSE, sheets |-> <<>>]}
    \cup {[path |-> "book.xlsx", readable |-> TRUE, sheets |-> book] :
             book \in Workbooks \cup DefectiveWorkbooks}

\* df[FIELDS]: the required columns in the required order
SelectFields(df) ==
    [r \in 1..Len(df.data) |->
        [c \in 1..Len(FIELDS) |-> df.data[r][ColIndex(df.columns, FIELDS[c])]]]

\* faulty variant: only the main sheet is validated
SheetsToValidateMainOnly(main_df, aux_df) ==
    << [df |-> main_df, name |-> "main"] >>

\* the list walked by the validation loop of line 197
SheetsToValidate(main_df, aux_df) ==
    << [df |-> main_df, name |-> "main"], [df |-> aux_df, name |-> "aux"] >>

\* lines 197-202: the first (sheet, column) the loop finds missing
FirstMissing(sheets) ==
    LET pairs == {<<s, c>> \in (1..Len(sheets)) \X (1..Len(FIELDS)) :
                     FIELDS[c] \notin Range(sheets[s].df.columns)}
    IN  IF pairs = {} THEN [found |-> FALSE, sheet |-> "", column |-> ""]
        ELSE LET first == CHOOSE p \in pairs :
                     \A q \in pairs :
                         p[1] < q[1] \/ (p[1] = q[1] /\ p[2] <= q[2])
             IN [found |-> TRUE, sheet |-> sheets[first[1]].name,
                 column |-> FIELDS[first[2]]]

\* the except branch of lines 210-215
LoadFailed(lines, box) ==
    /\ console_shown' = TRUE
    /\ console_out' = lines \o <<Line("ERROR", "read_excel_failed"),
                                 Line("", "Traceback")>>
    /\ msgbox' = box
    /\ UNCHANGED <<table_main, table_aux, label>>

\* lines 188-215, for a file among those offered
LoadExcel(files) ==
    \E file \in files :
        /\ run' = NoRun
        /\ dialog' = file
        /\ UNCHANGED <<figure, fn_vars>>
        /\ IF file.path = ""
           THEN /\ console_out' = <<>>
                /\ msgbox' = NoBox
                /\ UNCHANGED <<table_main, table_aux, label, console_shown>>
           ELSE IF ~file.readable
           THEN LoadFailed(<<>>, [text |-> "read_excel_failed",
                                  sheet |-> "", column |-> ""])
           ELSE LET main_df == file.sheets[1]
                    aux_df == IF Len(file.sheets) > 1 THEN file.sheets[2]
                              ELSE main_df
                    missing == FirstMissing(SheetsToValidate(main_df, aux_df))
                IN  IF missing.found
                    THEN LoadFailed(
                           << [tag |-> "ERROR", text |-> "missing_column",
                               sheet |-> missing.sheet,
                               column |-> missing.column] >>,
                           [text |-> "read_excel_failed",
                            sheet |-> missing.sheet,
                            column |-> missing.column])
                    ELSE IF \E c \in 1..Len(FIELDS) :
                                \/ FIELDS[c] \notin Range(main_df.columns)
                                \/ FIELDS[c] \notin Range(aux_df.columns)
                    THEN LoadFailed(<<>>, [text |-> "read_excel_failed",
                                           sheet |-> "", column |-> "KeyError"])
                    ELSE /\ table_main' = dataframe_to_table(SelectFields(main_df))
                         /\ table_aux' = dataframe_to_table(SelectFields(aux_df))
                         /\ label' = Label("loaded")
                         /\ console_shown' = TRUE
                         /\ console_out' = <<Line("INFO", "excel_loaded")>>
                         /\ msgbox' = NoBox

\* any file, sound or not
load_excel == LoadExcel(Files)

\* a sound workbook, or the dialog cancelled
load_complete_excel ==
    LoadExcel({f \in Files : f.path = "" \/ f.sheets \in Workbooks})

(***************************************************************************)
(* The user typing into a grid: a row of a grid takes one of these texts.  *)
(***************************************************************************)
RowInputs ==
    { <<"1", "1", "0", "0", "0", "0", "10">>,
      <<"", "1", "0", "0", "0", "0", "10">>,
      <<"1", "1", "0", "0", "abc", "0", "12">> }

Min(a, b) == IF a < b THEN a ELSE b

edit_main_row ==
    \E r \in 1..Min(Len(table_main), MaxEditRow) : \E row \in RowInputs :
        /\ table_main' = [table_main EXCEPT ![r] = row]
        /\ console_out' = <<>>
        /\ msgbox' = NoBox
        /\ run' = NoRun
        /\ dialog' = NoFile
        /\ UNCHANGED <<table_aux, label, figure, console_shown, fn_vars>>

edit_aux_row ==
    \E r \in 1..Min(Len(table_aux), MaxEditRow) : \E row \in RowInputs :
        /\ table_aux' = [table_aux EXCEPT ![r] = row]
        /\ console_out' = <<>>
        /\ msgbox' = NoBox
        /\ run' = NoRun
        /\ dialog' = NoFile
        /\ UNCHANGED <<table_main, label, figure, console_shown, fn_vars>>

(***************************************************************************)
(* The pure functions applied to matrices built row by row.                *)
(***************************************************************************)
FnRows == { <<Rat(0), Rat(0), Rat(10)>>, <<Rat(7), Rat(0), Rat(12)>> }

Thresholds == {1, DefaultThreshold}

Factors == {0, DefaultFactor}

NoResult == [op |-> "none", arg |-> 0, ref |-> <<>>, raised |-> "",
             value |-> <<>>]

fn_append_row ==
    \E v \in FnRows :
        /\ Len(fn_data) < MaxN
        /\ fn_data' = Append(fn_data, v)
        /\ fn_result' = NoResult
        /\ UNCHANGED app_vars

fn_detect_outliers ==
    \E t \in Thresholds :
        /\ fn_result' = [NoResult EXCEPT
                            !.op = "detect_outliers_zscore",
                            !.arg = t,
                            !.value = detect_outliers_zscore(fn_data, Rat(t))]
        /\ UNCHANGED <<fn_data, app_vars>>

fn_weighted_average ==
    LET avg == weighted_average(fn_data, None) IN
        /\ fn_result' = [NoResult EXCEPT
                            !.op = "weighted_average",
                            !.raised = avg.raised,
                            !.value = avg.value]
        /\ UNCHANGED <<fn_data, app_vars>>

fn_correct_main_data ==
    \E f \in Factors : \E ref \in FnRows :
        /\ fn_result' = [NoResult EXCEPT
                            !.op = "correct_main_data",
                            !.arg = f,
                            !.ref = ref,
                            !.value = correct_main_data(fn_data, ref, Rat(f))]
        /\ UNCHANGED <<fn_data, app_vars>>

(***************************************************************************)
(* Specifications.                                                         *)
(***************************************************************************)
Init ==
    /\ table_main = <<BlankRow>>
    /\ table_aux = <<BlankRow>>
    /\ label = Label("format_hint")
    /\ figure = EmptyFigure
    /\ console_shown = FALSE
    /\ console_out = <<>>
    /\ msgbox = NoBox
    /\ run = NoRun
    /\ dialog = NoFile
    /\ fn_data = <<>>
    /\ fn_result = NoResult

Next ==
    \/ add_main_row
    \/ add_aux_row
    \/ edit_main_row
    \/ edit_aux_row
    \/ load_complete_excel
    \/ process_and_plot

Spec == Init /\ [][Next]_vars

LoadNext ==
    \/ add_main_row
    \/ add_aux_row
    \/ edit_main_row
    \/ edit_aux_row
    \/ load_excel

LoadSpec == Init /\ [][LoadNext]_vars

FnNext ==
    \/ fn_append_row
    \/ fn_detect_outliers
    \/ fn_weighted_average
    \/ fn_correct_main_data

FnSpec == Init /\ [][FnNext]_vars

(***************************************************************************)
(* Vocabulary of the properties, read off the grids themselves.            *)
(***************************************************************************)
\* the grid rows in which every column of cols parses to a number
RowsWith(table, cols) ==
    {r \in 1..Len(table) :
        \A k \in 1..Len(cols) :
            ItemText(table[r][ColIndex(FIELDS, cols[k])]) \in NumberTexts}

\* the magnetic vector typed in row r
VectorOf(table, r) ==
    [j \in 1..3 |->
        Rat(to_numeric(ItemText(table[r][ColIndex(FIELDS, VECTOR_FIELDS[j])])).v)]

\* the elements of seq whose flag is FALSE, in order
RECURSIVE Unflagged(_, _)
Unflagged(seq, flags) ==
    IF seq = <<>> THEN <<>>
    ELSE IF flags[1] THEN Unflagged(Tail(seq), Tail(flags))
    ELSE <<seq[1]>> \o Unflagged(Tail(seq), Tail(flags))

Called(name) == \E k \in 1..Len(run.calls) : run.calls[k] = name

\* process_and_plot has just returned or raised
Ran == run.outcome # "none"

HasLine(lines, tag) == \E k \in 1..Len(lines) : lines[k].tag = tag

\* the sheet load_excel uses as the auxiliary dataset
AuxSheetOf(file) ==
    IF Len(file.sheets) > 1 THEN file.sheets[2] ELSE file.sheets[1]

LacksColumn(sheet) == \E c \in Range(FIELDS) : c \notin Range(sheet.columns)

(***************************************************************************)
(* C1: when process_and_plot is invoked with no complete vector row in the *)
(* main grid, or none in the auxiliary grid, it writes a WARN line,        *)
(* computes neither an auxiliary mean nor a correction, and leaves the     *)
(* figure and both grids as they were.                                     *)
(***************************************************************************)
C1_AbortsOnNoVectorRows ==
    [][ (/\ run'.outcome # "none"
         /\ \/ RowsWith(table_main, VECTOR_FIELDS) = {}
            \/ RowsWith(table_aux, VECTOR_FIELDS) = {})
        => /\ HasLine(console_out', "WARN")
           /\ run'.calls = <<>>
           /\ run'.aux_mean = <<>>
           /\ run'.main_corrected = <<>>
           /\ figure' = figure
           /\ table_main' = table_main
           /\ table_aux' = table_aux ]_vars

\* an aborted run over a plot drawn earlier, the main grid still valid
C1_Witness ==
    /\ run.outcome = "incomplete"
    /\ figure.quivers # <<>>
    /\ RowsWith(table_main, VECTOR_FIELDS) # {}
    /\ RowsWith(table_aux, VECTOR_FIELDS) = {}

(***************************************************************************)
(* C2: loading a workbook whose first sheet, or whose auxiliary sheet,     *)
(* lacks a required column fails with an error naming a column that is     *)
(* missing from the named sheet, and changes neither grid.                 *)
(***************************************************************************)
C2_DefectiveLoadChangesNothing ==
    [][ (/\ dialog'.readable
         /\ LacksColumn(dialog'.sheets[1]) \/ LacksColumn(AuxSheetOf(dialog')))
        => /\ table_main' = table_main
           /\ table_aux' = table_aux
           /\ \E k \in 1..Len(console_out') :
                /\ console_out'[k].tag = "ERROR"
                /\ console_out'[k].text = "missing_column"
                /\ LET sheet == IF console_out'[k].sheet = "main"
                                THEN dialog'.sheets[1]
                                ELSE AuxSheetOf(dialog')
                   IN /\ console_out'[k].sheet \in {"main", "aux"}
                      /\ console_out'[k].column \in Range(FIELDS)
                      /\ console_out'[k].column \notin Range(sheet.columns)
                      /\ msgbox'.column = console_out'[k].column ]_vars

\* a failed load of a workbook whose main sheet is sound and whose
\* auxiliary sheet is not, over grids the user has already filled
C2_Witness ==
    /\ dialog.readable
    /\ Len(dialog.sheets) = 2
    /\ ~LacksColumn(dialog.sheets[1])
    /\ LacksColumn(dialog.sheets[2])
    /\ msgbox.sheet = "aux"
    /\ RowsWith(table_main, VECTOR_FIELDS) # {}

(***************************************************************************)
(* C3: in a run with at least two complete auxiliary vector rows, the rows *)
(* handed to weighted_average are the rows the outlier mask leaves         *)
(* unflagged, or all the rows when the mask flags every one; a run that    *)
(* reaches the correction has called it, and it is never called on zero    *)
(* rows.                                                                   *)
(***************************************************************************)
C3_AggregatorInput ==
    /\ Called("weighted_average") => Len(run.agg_input) > 0
    /\ (Ran /\ Len(run.aux_vec) >= 2)
       => /\ run.outcome \in {"done", "ValueError"}
             => Called("weighted_average")
          /\ Called("weighted_average")
             => LET kept == Unflagged(run.aux_vec, run.outlier_mask)
                IN run.agg_input = IF kept = <<>> THEN run.aux_vec ELSE kept

\* a completed run in which the mask flags some rows and spares others
C3_Witness ==
    /\ run.outcome = "done"
    /\ Len(run.aux_vec) >= 2
    /\ \E i \in 1..Len(run.outlier_mask) : run.outlier_mask[i]
    /\ \E i \in 1..Len(run.outlier_mask) : ~run.outlier_mask[i]
    /\ Len(run.agg_input) < Len(run.aux_vec)

C5_MainIndexAligned ==
    run.outcome \in {"done", "ValueError"}
    => /\ Len(run.main_geo_idx) = Len(run.main_vec_idx)
       /\ Len(run.main_corrected) = Len(run.main_vec_idx)
       /\ \A i \in 1..Len(run.main_vec_idx) :
             run.main_geo_idx[i] = run.main_vec_idx[i]

(***************************************************************************)
(* C6: an invocation of process_and_plot either completes the render or    *)
(* aborts with a console line and a label message; nothing raised between  *)
(* extraction and correction leaves it uncaught.  (An exception raised by  *)
(* the render itself is not counted against this statement.)               *)
(***************************************************************************)
C6_NoUncaughtPipelineFailure ==
    Ran => \/ run.outcome \in {"done", "ValueError"}
           \/ /\ run.outcome \in {"incomplete", "format_error", "aux_empty"}
              /\ console_out # <<>>
              /\ label.text \in {"fill_all_components", "format_error",
                                 "aux_empty"}

(***************************************************************************)
(* C7: in a run that passes validation with at least two complete          *)
(* auxiliary vector rows, all carrying the same vector, no row is flagged  *)
(* and the auxiliary mean produced is that common vector.                  *)
(***************************************************************************)
C7_IdenticalRowsMean ==
    (/\ Ran
     /\ RowsWith(table_main, VECTOR_FIELDS) # {}
     /\ Cardinality(RowsWith(table_aux, VECTOR_FIELDS)) >= 2
     /\ \A a, b \in RowsWith(table_aux, VECTOR_FIELDS) :
            VectorOf(table_aux, a) = VectorOf(table_aux, b))
    => /\ \A i \in 1..Len(run.outlier_mask) : ~run.outlier_mask[i]
       /\ run.aux_mean
            = VectorOf(table_aux,
                       CHOOSE x \in RowsWith(table_aux, VECTOR_FIELDS) : TRUE)

\* the function alone: identical rows are never flagged, whatever the
\* threshold
C7_ConstantColumnsUnflagged ==
    (/\ fn_result.op = "detect_outliers_zscore"
     /\ Len(fn_data) >= 2
     /\ \A i \in 1..Len(fn_data) : fn_data[i] = fn_data[1])
    => \A i \in 1..Len(fn_result.value) : ~fn_result.value[i]

C9_GridFrame ==
    [][ /\ run'.outcome # "none"
           => table_main' = table_main /\ table_aux' = table_aux
        /\ add_main_row
           => /\ Len(table_main') = Len(table_main) + 1
              /\ SubSeq(table_main', 1, Len(table_main)) = table_main
              /\ table_aux' = table_aux
        /\ add_aux_row
           => /\ Len(table_aux') = Len(table_aux) + 1
              /\ SubSeq(table_aux', 1, Len(table_aux)) = table_aux
              /\ table_main' = table_main ]_vars

\* a run over a loaded main grid to which a row has been appended
C9_Witness ==
    /\ Ran
    /\ Len(table_main) >= 2
    /\ table_main[Len(table_main)] = BlankRow
    /\ table_main[1] # BlankRow
    /\ label.text # "format_hint"

C10_FallbackNeverTaken == ~run.fallback

====
